---- MODULE Spec2Model ----
(***************************************************************************)
(* Model of the course catalogue browser (akiko-charizard).                *)
(*                                                                         *)
(* The repository holds three revisions of the same page component:       *)
(*   "part_000"  src/unnamed/part_000   (year check boxes, exact-name     *)
(*                                        mode, row spans)                 *)
(*   "part_001"  src/unnamed/part_001   (single year input, row spans)    *)
(*   "page"      src/src/routes/+page.svelte (single year input,          *)
(*                                        case-sensitive, no row spans)    *)
(* The variable `variant` says which revision is running.                  *)
(*                                                                         *)
(* A JavaScript string is a sequence of one-character strings.  A value   *)
(* of type T | undefined (or T | null) is <<>> when absent and <<v>> when  *)
(* present.                                                                *)
(***************************************************************************)
EXTENDS Integers, Sequences, FiniteSets, TLC

VARIABLES variant, pc, sources, courses,
          idFilter, idFilterMode, nameFilter, nameFilterMode, yearFilter,
          priorityString, showDescription, maxVisibleCourseCount,
          visibleCourses, visibleCourseIdRowSpans, maxExceeded,
          prioritizedCount

vars == <<variant, pc, sources, courses,
          idFilter, idFilterMode, nameFilter, nameFilterMode, yearFilter,
          priorityString, showDescription, maxVisibleCourseCount,
          visibleCourses, visibleCourseIdRowSpans, maxExceeded,
          prioritizedCount>>

config == <<idFilter, idFilterMode, nameFilter, nameFilterMode, yearFilter,
            priorityString, showDescription, maxVisibleCourseCount>>

derived == <<visibleCourses, visibleCourseIdRowSpans, maxExceeded,
             prioritizedCount>>

----------------------------------------------------------------------------
(* Bounds of the model.                                                    *)

\* Largest number of decoded rows, over all sources together (load model).
MaxRows == 3

\* Largest small cap the user types into the "max rows" input.
MaxCap == 2

----------------------------------------------------------------------------
(* Evaluation helper: the value of F at e, e being evaluated once.         *)

Let(e, F(_)) == CHOOSE r \in {F(x) : x \in {e}} : TRUE

----------------------------------------------------------------------------
(* Optional values.                                                        *)

Undefined == <<>>

Some(v) == <<v>>

IsDefined(o) == o # <<>>

ValueOf(o) == o[1]

----------------------------------------------------------------------------
(* JavaScript strings.                                                     *)

\* UTF-16 code unit of each character of the model's alphabet.
Code(c) ==
  CASE c = " " -> 32  [] c = "," -> 44
    [] c = "0" -> 48  [] c = "1" -> 49  [] c = "2" -> 50  [] c = "3" -> 51
    [] c = "4" -> 52  [] c = "5" -> 53  [] c = "6" -> 54  [] c = "7" -> 55
    [] c = "8" -> 56  [] c = "9" -> 57
    [] c = "A" -> 65  [] c = "B" -> 66  [] c = "N" -> 78
    [] c = "a" -> 97  [] c = "b" -> 98  [] c = "n" -> 110

LowerChar(c) ==
  CASE c = "A" -> "a" [] c = "B" -> "b" [] c = "N" -> "n" [] OTHER -> c

UpperChar(c) ==
  CASE c = "a" -> "A" [] c = "b" -> "B" [] c = "n" -> "N" [] OTHER -> c

toLowerCase(s) == [i \in 1..Len(s) |-> LowerChar(s[i])]

toUpperCase(s) == [i \in 1..Len(s) |-> UpperChar(s[i])]

\* s.startsWith(t)
startsWith(s, t) == Len(t) <= Len(s) /\ SubSeq(s, 1, Len(t)) = t

\* s.includes(t)
includes(s, t) ==
  \E k \in 0..(Len(s) - Len(t)) : SubSeq(s, k + 1, k + Len(t)) = t

IsSpace(c) == c = " "

RECURSIVE trimStart(_)
trimStart(s) ==
  IF s # <<>> /\ IsSpace(Head(s)) THEN trimStart(Tail(s)) ELSE s

RECURSIVE trimEnd(_)
trimEnd(s) ==
  IF s # <<>> /\ IsSpace(s[Len(s)])
  THEN trimEnd(SubSeq(s, 1, Len(s) - 1))
  ELSE s

\* s.trim()
trim(s) == trimEnd(trimStart(s))

\* a < b on strings: lexicographic comparison of code units.
RECURSIVE StrLess(_, _)
StrLess(a, b) ==
  IF b = <<>> THEN FALSE
  ELSE IF a = <<>> THEN TRUE
  ELSE IF Code(Head(a)) < Code(Head(b)) THEN TRUE
  ELSE IF Code(Head(a)) > Code(Head(b)) THEN FALSE
  ELSE StrLess(Tail(a), Tail(b))

DigitChar(d) ==
  CASE d = 0 -> "0" [] d = 1 -> "1" [] d = 2 -> "2" [] d = 3 -> "3"
    [] d = 4 -> "4" [] d = 5 -> "5" [] d = 6 -> "6" [] d = 7 -> "7"
    [] d = 8 -> "8" [] d = 9 -> "9"

\* `${n}` for a non-negative integer n: its decimal digits.
RECURSIVE NumToString(_)
NumToString(n) ==
  IF n < 10 THEN <<DigitChar(n)>>
  ELSE NumToString(n \div 10) \o <<DigitChar(n % 10)>>

----------------------------------------------------------------------------
(* Array.prototype.sort with a consistent comparator: the result is       *)
(* ordered by the comparator and elements that compare equal keep their   *)
(* order (the sort is stable).  cmp[i, j] is the result of the comparator *)
(* for the elements xs[i] and xs[j].                                       *)

\* Mutant of SortRank: an unstable sort, equal elements change places.
SortRankUnstable(cmp, n, i) ==
  1 + Cardinality({j \in 1..n :
         cmp[j, i] < 0 \/ (cmp[j, i] = 0 /\ j > i)})

\* The position of the i-th of n elements in the sorted array.
SortRank(cmp, n, i) ==
  1 + Cardinality({j \in 1..n :
         cmp[j, i] < 0 \/ (cmp[j, i] = 0 /\ j < i)})

ArraySort(xs, cmp) ==
  Let([i \in 1..Len(xs) |-> SortRank(cmp, Len(xs), i)], LAMBDA rank :
    [k \in 1..Len(xs) |-> xs[CHOOSE i \in 1..Len(xs) : rank[i] = k]])

----------------------------------------------------------------------------
(* Courses.                                                                *)

\* Mutant of courseCompare: the two results exchanged.
courseCompareReversed(a, b) ==
  IF StrLess(a.key, b.key) THEN 1
  ELSE IF StrLess(b.key, a.key) THEN -1
  ELSE 0

courseCompare(a, b) ==
  IF StrLess(a.key, b.key) THEN -1
  ELSE IF StrLess(b.key, a.key) THEN 1
  ELSE 0

\* The nine columns of a decoded row.  The header names of the CSV files
\* are 科目番号, 科目名, 単位数, 実施学期, 曜時限, 標準履修年次, 備考,
\* 授業概要, 担当教員, in this order.
Columns == {"id", "name", "credit", "term", "when", "expects", "remark",
            "description", "organizer"}

\* A cell of a decoded row: typeof cell and, for a string, its text.
Str(s) == [type |-> "string", text |-> s]

NonStr == [type |-> "object", text |-> <<>>]

\* The test of lines 61-84: every column is present and holds a string.
RowIsCourse(row) ==
  \A col \in Columns : col \in DOMAIN row /\ row[col].type = "string"

\* Mutant of MakeCourse: the id is stored as it was read, not trimmed.
MakeCourseIdNotTrimmed(row, year) ==
  LET id == row["id"].text
  IN  [id          |-> id,
       name        |-> trim(row["name"].text),
       credit      |-> trim(row["credit"].text),
       term        |-> trim(row["term"].text),
       when        |-> trim(row["when"].text),
       expects     |-> trim(row["expects"].text),
       remark      |-> trim(row["remark"].text),
       description |-> trim(row["description"].text),
       organizer   |-> trim(row["organizer"].text),
       year        |-> year,
       key         |-> id \o <<",">> \o NumToString(year)]

\* The record of lines 91-103.
MakeCourse(row, year) ==
  LET id == trim(row["id"].text)
  IN  [id          |-> id,
       name        |-> trim(row["name"].text),
       credit      |-> trim(row["credit"].text),
       term        |-> trim(row["term"].text),
       when        |-> trim(row["when"].text),
       expects     |-> trim(row["expects"].text),
       remark      |-> trim(row["remark"].text),
       description |-> trim(row["description"].text),
       organizer   |-> trim(row["organizer"].text),
       year        |-> year,
       key         |-> id \o <<",">> \o NumToString(year)]

\* A decoded row with all nine columns present and of string type.
Row(id, name, description) ==
  [col \in Columns |->
     CASE col = "id" -> Str(id)
       [] col = "name" -> Str(name)
       [] col = "description" -> Str(description)
       [] OTHER -> Str(<<>>)]

rA == Row(<<" ", "A">>, <<>>, <<"n">>)

rAN == Row(<<"A">>, <<"N", " ">>, <<>>)

rAB == Row(<<"A", "B">>, <<"N">>, <<>>)

rB == Row(<<"B">>, <<"n">>, <<>>)

rb == Row(<<"b">>, <<>>, <<>>)

\* Rows the parser skips: blank id, a missing column, a non-string cell.
rBlank == Row(<<" ", " ">>, <<"N">>, <<>>)

rMissing == [col \in Columns \ {"name"} |-> rAB[col]]

rNonStr == [rAB EXCEPT !["name"] = NonStr]

\* The decoded row of a line of CSV text; the model names each line by the
\* row it decodes to.
RowOf(line) ==
  CASE line = "rA" -> rA
    [] line = "rAN" -> rAN
    [] line = "rAB" -> rAB
    [] line = "rB" -> rB
    [] line = "rb" -> rb
    [] line = "rBlank" -> rBlank
    [] line = "rMissing" -> rMissing
    [] line = "rNonStr" -> rNonStr

\* papaparse.parse(csv, {header: true}).  A CSV text is modelled by what
\* the decoder makes of it: csv.errors is the number of errors it reports
\* and csv.lines are the data lines it decodes.
papaparseParse(csv) ==
  [errors |-> csv.errors,
   data   |-> [k \in 1..Len(csv.lines) |-> RowOf(csv.lines[k])]]

RECURSIVE ParseRows(_, _)
ParseRows(data, year) ==
  IF data = <<>> THEN <<>>
  ELSE LET row == Head(data)
           rest == ParseRows(Tail(data), year)
       IN  IF ~RowIsCourse(row) THEN rest
           ELSE IF trim(row["id"].text) = <<>> THEN rest
           ELSE <<MakeCourse(row, year)>> \o rest

\* Mutant of parseCoursesCsv: the errors of the decoder are not looked at.
parseCoursesCsvIgnoringErrors(csv, year) ==
  Let(papaparseParse(csv), LAMBDA result :
    Some(ParseRows(result.data, year)))

parseCoursesCsv(csv, year) ==
  Let(papaparseParse(csv), LAMBDA result :
    IF result.errors > 0 THEN Undefined
    ELSE Some(ParseRows(result.data, year)))

\* The years of the three sources, in the order loadCourses reads them.
Years == <<2023, 2024, 2025>>

\* The loop of loadCourses: <<>> when an assertion failed, else <<courses>>
\* holding the concatenation of the sources from index i on.
RECURSIVE LoadFrom(_, _)
LoadFrom(srcs, i) ==
  IF i > Len(Years) THEN Some(<<>>)
  ELSE Let(parseCoursesCsv(srcs[i], Years[i]), LAMBDA cs :
         IF ~IsDefined(cs) THEN Undefined
         ELSE Let(LoadFrom(srcs, i + 1), LAMBDA rest :
                IF ~IsDefined(rest) THEN Undefined
                ELSE Some(ValueOf(cs) \o ValueOf(rest))))

loadCourses(srcs) ==
  Let(LoadFrom(srcs, 1), LAMBDA all :
    IF ~IsDefined(all) THEN Undefined
    ELSE Let(ValueOf(all), LAMBDA cs :
           Some(ArraySort(cs,
                  [i, j \in 1..Len(cs) |-> courseCompare(cs[i], cs[j])]))))

----------------------------------------------------------------------------
(* The derived view: filter, priority sort, row spans.                     *)

\* c contains s in one of its searched fields.  Revisions part_000 and
\* part_001 compare lower-cased text and search the description only when
\* useDescription holds; revision page compares the text as it is and
\* always searches the description.
courseContainsString(v, c, s, useDescription) ==
  IF v = "page"
  THEN \/ includes(c.id, s)
       \/ includes(c.name, s)
       \/ includes(c.credit, s)
       \/ includes(c.term, s)
       \/ includes(c.when, s)
       \/ includes(c.expects, s)
       \/ includes(c.remark, s)
       \/ includes(c.description, s)
       \/ includes(c.organizer, s)
  ELSE LET l == toLowerCase(s)
       IN  \/ includes(toLowerCase(c.id), l)
           \/ includes(toLowerCase(c.name), l)
           \/ includes(toLowerCase(c.credit), l)
           \/ includes(toLowerCase(c.term), l)
           \/ includes(toLowerCase(c.when), l)
           \/ includes(toLowerCase(c.expects), l)
           \/ includes(toLowerCase(c.remark), l)
           \/ includes(toLowerCase(c.organizer), l)
           \/ (useDescription /\ includes(toLowerCase(c.description), l))

\* The identifier conjunct of the filter condition.
IdPasses(v, c, filter, mode) ==
  LET f == IF v = "page" THEN filter ELSE toUpperCase(filter)
  IN  IF mode = "prefix" THEN startsWith(c.id, f) ELSE includes(c.id, f)

\* Mutant of NamePasses: an empty text switches the exact mode off.
NamePassesEmptyIsNoOp(v, c, filter, mode) ==
  IF v = "page" THEN includes(c.name, filter)
  ELSE IF v = "part_000" /\ mode = "exact"
       THEN filter = <<>> \/ c.name = filter
  ELSE includes(toLowerCase(c.name), toLowerCase(filter))

\* The name conjunct of the filter condition.
NamePasses(v, c, filter, mode) ==
  IF v = "page" THEN includes(c.name, filter)
  ELSE IF v = "part_000" /\ mode = "exact" THEN c.name = filter
  ELSE includes(toLowerCase(c.name), toLowerCase(filter))

\* Mutant of YearPasses: an empty set of years lets every year through.
YearPassesEmptyIsAll(v, c, filter) ==
  IF v = "part_000" THEN filter = {} \/ c.year \in filter
  ELSE ~IsDefined(filter) \/ c.year = ValueOf(filter)

\* The year conjunct of the filter condition: a set of years in part_000,
\* a year or undefined in the other revisions.
YearPasses(v, c, filter) ==
  IF v = "part_000" THEN c.year \in filter
  ELSE ~IsDefined(filter) \/ c.year = ValueOf(filter)

CoursePasses(v, c, cfg) ==
  /\ IdPasses(v, c, cfg.idFilter, cfg.idFilterMode)
  /\ NamePasses(v, c, cfg.nameFilter, cfg.nameFilterMode)
  /\ YearPasses(v, c, cfg.yearFilter)

\* The value of a number input in arithmetic: null counts as 0.
ToNumber(n) == IF IsDefined(n) THEN ValueOf(n) ELSE 0

\* Mutant of CapReached: the loop ends one course early.
CapReachedEarly(len, cap) == len = ToNumber(cap)

\* The condition that ends the filter loop.
CapReached(len, cap) == len = ToNumber(cap) + 1

\* The filter loop from course index i on, acc being the courses pushed so
\* far.
RECURSIVE FilterLoop(_, _, _, _, _)
FilterLoop(v, cs, cfg, i, acc) ==
  IF i > Len(cs) THEN [visibleCourses |-> acc, maxExceeded |-> FALSE]
  ELSE IF ~CoursePasses(v, cs[i], cfg)
       THEN FilterLoop(v, cs, cfg, i + 1, acc)
  ELSE IF CapReached(Len(acc) + 1, cfg.maxVisibleCourseCount)
       THEN [visibleCourses |-> acc, maxExceeded |-> TRUE]
  ELSE FilterLoop(v, cs, cfg, i + 1, Append(acc, cs[i]))

\* Mutant of PriorityKey: the minus sign is missing.
PriorityKeyNotNegated(v, c, cfg) ==
  IF courseContainsString(v, c, cfg.priorityString, cfg.showDescription)
  THEN 1 ELSE 0

\* The key function handed to sortByKeyCached: -true is -1, -false is 0.
PriorityKey(v, c, cfg) ==
  IF courseContainsString(v, c, cfg.priorityString, cfg.showDescription)
  THEN -1 ELSE 0

PairCompare(p, q) == p[1] - q[1]

\* sortByKeyCached(ts, getKey), getKey given as the sequence of the keys
\* of ts.
sortByKeyCached(ts, keys) ==
  Let([i \in 1..Len(ts) |-> <<keys[i], ts[i]>>], LAMBDA pairs :
    Let(ArraySort(pairs,
          [i, j \in 1..Len(pairs) |-> PairCompare(pairs[i], pairs[j])]),
        LAMBDA sorted : [i \in 1..Len(ts) |-> sorted[i][2]]))

\* The counting loop: the length of the leading run of matching courses.
RECURSIVE CountPrioritized(_, _, _, _)
CountPrioritized(v, ts, cfg, i) ==
  IF i > Len(ts) THEN 0
  ELSE IF courseContainsString(v, ts[i], cfg.priorityString,
                               cfg.showDescription)
       THEN 1 + CountPrioritized(v, ts, cfg, i + 1)
  ELSE 0

\* Mutant of Prioritize: the test of the empty query is missing.
PrioritizeAlways(v, ts, cfg) ==
  Let(sortByKeyCached(ts,
        [i \in 1..Len(ts) |-> PriorityKey(v, ts[i], cfg)]),
      LAMBDA sorted :
        [visibleCourses   |-> sorted,
         prioritizedCount |-> Some(CountPrioritized(v, sorted, cfg, 1))])

\* The priority step applied to the filtered courses.
Prioritize(v, ts, cfg) ==
  IF cfg.priorityString # <<>>
  THEN Let(sortByKeyCached(ts,
              [i \in 1..Len(ts) |-> PriorityKey(v, ts[i], cfg)]),
            LAMBDA sorted :
              [visibleCourses   |-> sorted,
               prioritizedCount |->
                 Some(CountPrioritized(v, sorted, cfg, 1))])
  ELSE [visibleCourses |-> ts, prioritizedCount |-> Undefined]

\* The first loop of the span step: the lengths of the runs of equal ids.
\* counts are the runs closed or open so far and last the id of the open
\* run (undefined before the first course).
RECURSIVE DuplicateCourseIdCounts(_, _, _, _)
DuplicateCourseIdCounts(ts, i, counts, last) ==
  IF i > Len(ts) THEN counts
  ELSE Let(IF last # Some(ts[i].id) THEN Append(counts, 0) ELSE counts,
           LAMBDA opened :
             DuplicateCourseIdCounts(ts, i + 1,
               [opened EXCEPT ![Len(opened)] = @ + 1], Some(ts[i].id)))

\* Mutant of SpansOfCount: one zero too many.
SpansOfCountExtraZero(count) == <<count>> \o [i \in 1..count |-> 0]

\* The spans pushed for one run: its count, then count-1 zeros.
SpansOfCount(count) == <<count>> \o [i \in 1..(count - 1) |-> 0]

\* The second loop of the span step.
RECURSIVE ExpandCounts(_)
ExpandCounts(counts) ==
  IF counts = <<>> THEN <<>>
  ELSE SpansOfCount(Head(counts)) \o ExpandCounts(Tail(counts))

\* Revision page has no span step: its span array stays empty.
RowSpans(v, ts) ==
  IF v = "page" THEN <<>>
  ELSE ExpandCounts(DuplicateCourseIdCounts(ts, 1, <<>>, Undefined))

\* Mutant of Recompute: the result array is the master array itself, so
\* the priority sort reorders the master array in place.
RecomputeSortingMaster(v, cs, cfg) ==
  Let(FilterLoop(v, cs, cfg, 1, <<>>), LAMBDA filtered :
    Let(Prioritize(v, filtered.visibleCourses, cfg), LAMBDA ranked :
      [courses                 |-> Prioritize(v, cs, cfg).visibleCourses,
       visibleCourses          |-> ranked.visibleCourses,
       visibleCourseIdRowSpans |-> RowSpans(v, ranked.visibleCourses),
       maxExceeded             |-> filtered.maxExceeded,
       prioritizedCount        |-> ranked.prioritizedCount]))

\* Mutant of Recompute: the priority sort runs before the cap is applied.
RecomputeRankingFirst(v, cs, cfg) ==
  Let(FilterLoop(v, Prioritize(v, cs, cfg).visibleCourses, cfg, 1, <<>>),
      LAMBDA filtered :
    Let(Prioritize(v, filtered.visibleCourses, cfg), LAMBDA ranked :
      [courses                 |-> cs,
       visibleCourses          |-> ranked.visibleCourses,
       visibleCourseIdRowSpans |-> RowSpans(v, ranked.visibleCourses),
       maxExceeded             |-> filtered.maxExceeded,
       prioritizedCount        |-> ranked.prioritizedCount]))

\* The whole $derived.by computation.  It reads the master array cs,
\* pushes the courses that pass into a new array and sorts that new array
\* in place; the field courses is the master array as the computation
\* leaves it.
Recompute(v, cs, cfg) ==
  Let(FilterLoop(v, cs, cfg, 1, <<>>), LAMBDA filtered :
    Let(Prioritize(v, filtered.visibleCourses, cfg), LAMBDA ranked :
      [courses                 |-> cs,
       visibleCourses          |-> ranked.visibleCourses,
       visibleCourseIdRowSpans |-> RowSpans(v, ranked.visibleCourses),
       maxExceeded             |-> filtered.maxExceeded,
       prioritizedCount        |-> ranked.prioritizedCount]))

----------------------------------------------------------------------------
(* Inputs of the model.                                                    *)

Variants == {"part_000", "part_001", "page"}

\* A CSV text the decoder reads without error.
Csv(lines) == [errors |-> 0, lines |-> lines]

\* The data sets the interactive model starts from: one of two files per
\* year.
SourceFamily ==
  {<<Csv(d1), Csv(d2), Csv(d3)>> :
     d1 \in {<<"rb", "rB", "rAB", "rA">>, <<"rAN">>},
     d2 \in {<<>>, <<"rAN", "rB">>},
     d3 \in {<<>>, <<"rA">>}}

RowPool == {"rA", "rAB", "rb", "rBlank", "rMissing", "rNonStr"}

\* The data sets of the load model have at most MaxRows lines in all:
\* the numbers of lines of the three files.
LoadSizes ==
  {n \in [1..Len(Years) -> 0..MaxRows] : n[1] + n[2] + n[3] <= MaxRows}

IdFilterTexts == {<<>>, <<"b">>}

NameFilterTexts == {<<>>, <<"n">>}

PriorityTexts == {<<>>, <<"N">>}

\* Integers typed into the "max rows" number input.  The value the binding
\* stores for an empty field is decided by the framework, not by this
\* code, and is not among the inputs.
CapInputs == {Some(n) : n \in -1..MaxCap} \cup {Some(1000)}

----------------------------------------------------------------------------
(* The state machine.                                                      *)

Cfg == [idFilter              |-> idFilter,
        idFilterMode          |-> idFilterMode,
        nameFilter            |-> nameFilter,
        nameFilterMode        |-> nameFilterMode,
        yearFilter            |-> yearFilter,
        priorityString        |-> priorityString,
        showDescription       |-> showDescription,
        maxVisibleCourseCount |-> maxVisibleCourseCount]

\* The state before the component script has run, for a set of sources.
InitWith(family) ==
  /\ variant \in Variants
  /\ sources \in family
  /\ pc = "start"
  /\ courses = <<>>
  /\ idFilter = <<>>
  /\ idFilterMode = "prefix"
  /\ nameFilter = <<>>
  /\ nameFilterMode = "contain"
  /\ yearFilter = IF variant = "part_000"
                  THEN {Years[i] : i \in 1..Len(Years)} ELSE Undefined
  /\ priorityString = <<>>
  /\ showDescription = FALSE
  /\ maxVisibleCourseCount = Some(1000)
  /\ visibleCourses = <<>>
  /\ visibleCourseIdRowSpans = <<>>
  /\ maxExceeded = FALSE
  /\ prioritizedCount = Undefined

Init == InitWith(SourceFamily)

\* The load model starts from any three files of the sizes LoadSizes; the
\* decoder may report an error for any of them.
InitLoad ==
  \E n \in LoadSizes :
    \E e \in [1..Len(Years) -> 0..1] :
      \E d1 \in [1..n[1] -> RowPool], d2 \in [1..n[2] -> RowPool],
         d3 \in [1..n[3] -> RowPool] :
        InitWith({<<[errors |-> e[1], lines |-> d1],
                    [errors |-> e[2], lines |-> d2],
                    [errors |-> e[3], lines |-> d3]>>})

\* The derived values follow the configuration cfg.
Derive(cfg) ==
  \E d \in {Recompute(variant, courses, cfg)} :
    /\ courses' = d.courses
    /\ visibleCourses' = d.visibleCourses
    /\ visibleCourseIdRowSpans' = d.visibleCourseIdRowSpans
    /\ maxExceeded' = d.maxExceeded
    /\ prioritizedCount' = d.prioritizedCount

\* The component script: loadCourses() and the first evaluation of the
\* derived values; a failed assertion ends it.
LoadCourses ==
  /\ pc = "start"
  /\ \E loaded \in {loadCourses(sources)} :
       IF IsDefined(loaded)
       THEN \E d \in {Recompute(variant, ValueOf(loaded), Cfg)} :
              /\ pc' = "ready"
              /\ courses' = d.courses
              /\ visibleCourses' = d.visibleCourses
              /\ visibleCourseIdRowSpans' = d.visibleCourseIdRowSpans
              /\ maxExceeded' = d.maxExceeded
              /\ prioritizedCount' = d.prioritizedCount
       ELSE /\ pc' = "aborted"
            /\ UNCHANGED <<courses, derived>>
  /\ UNCHANGED <<variant, sources, config>>

SetIdFilter ==
  /\ pc = "ready"
  /\ \E s \in IdFilterTexts :
       /\ idFilter' = s
       /\ Derive([Cfg EXCEPT !.idFilter = s])
  /\ UNCHANGED <<variant, pc, sources, idFilterMode, nameFilter,
                 nameFilterMode, yearFilter, priorityString,
                 showDescription, maxVisibleCourseCount>>

SetIdFilterMode ==
  /\ pc = "ready"
  /\ \E m \in {"prefix", "contain"} :
       /\ idFilterMode' = m
       /\ Derive([Cfg EXCEPT !.idFilterMode = m])
  /\ UNCHANGED <<variant, pc, sources, idFilter, nameFilter,
                 nameFilterMode, yearFilter, priorityString,
                 showDescription, maxVisibleCourseCount>>

SetNameFilter ==
  /\ pc = "ready"
  /\ \E s \in NameFilterTexts :
       /\ nameFilter' = s
       /\ Derive([Cfg EXCEPT !.nameFilter = s])
  /\ UNCHANGED <<variant, pc, sources, idFilter, idFilterMode,
                 nameFilterMode, yearFilter, priorityString,
                 showDescription, maxVisibleCourseCount>>

\* Only revision part_000 has the name mode selector.
SetNameFilterMode ==
  /\ pc = "ready"
  /\ variant = "part_000"
  /\ \E m \in {"contain", "exact"} :
       /\ nameFilterMode' = m
       /\ Derive([Cfg EXCEPT !.nameFilterMode = m])
  /\ UNCHANGED <<variant, pc, sources, idFilter, idFilterMode,
                 nameFilter, yearFilter, priorityString, showDescription,
                 maxVisibleCourseCount>>

\* Revision part_000: the onchange handler of the check box of a year.
ToggleYear ==
  /\ pc = "ready"
  /\ variant = "part_000"
  /\ \E i \in 1..Len(Years), checked \in BOOLEAN :
       LET f == IF checked THEN yearFilter \cup {Years[i]}
                ELSE yearFilter \ {Years[i]}
       IN  /\ yearFilter' = f
           /\ Derive([Cfg EXCEPT !.yearFilter = f])
  /\ UNCHANGED <<variant, pc, sources, idFilter, idFilterMode,
                 nameFilter, nameFilterMode, priorityString,
                 showDescription, maxVisibleCourseCount>>

\* Revisions part_001 and page: the oninput handler of the year field;
\* year is parseInt of the text, <<>> standing for NaN.
InputYear ==
  /\ pc = "ready"
  /\ variant # "part_000"
  /\ \E year \in {Undefined} \cup {Some(Years[i]) : i \in 1..Len(Years)} :
       LET f == IF ~IsDefined(year) THEN Undefined ELSE year
       IN  /\ yearFilter' = f
           /\ Derive([Cfg EXCEPT !.yearFilter = f])
  /\ UNCHANGED <<variant, pc, sources, idFilter, idFilterMode,
                 nameFilter, nameFilterMode, priorityString,
                 showDescription, maxVisibleCourseCount>>

SetPriorityString ==
  /\ pc = "ready"
  /\ \E s \in PriorityTexts :
       /\ priorityString' = s
       /\ Derive([Cfg EXCEPT !.priorityString = s])
  /\ UNCHANGED <<variant, pc, sources, idFilter, idFilterMode,
                 nameFilter, nameFilterMode, yearFilter, showDescription,
                 maxVisibleCourseCount>>

\* Revision page has no description check box.
SetShowDescription ==
  /\ pc = "ready"
  /\ variant # "page"
  /\ \E b \in BOOLEAN :
       /\ showDescription' = b
       /\ Derive([Cfg EXCEPT !.showDescription = b])
  /\ UNCHANGED <<variant, pc, sources, idFilter, idFilterMode,
                 nameFilter, nameFilterMode, yearFilter, priorityString,
                 maxVisibleCourseCount>>

SetMaxVisibleCourseCount ==
  /\ pc = "ready"
  /\ \E n \in CapInputs :
       /\ maxVisibleCourseCount' = n
       /\ Derive([Cfg EXCEPT !.maxVisibleCourseCount = n])
  /\ UNCHANGED <<variant, pc, sources, idFilter, idFilterMode,
                 nameFilter, nameFilterMode, yearFilter, priorityString,
                 showDescription>>

Next ==
  \/ LoadCourses
  \/ SetIdFilter
  \/ SetIdFilterMode
  \/ SetNameFilter
  \/ SetNameFilterMode
  \/ ToggleYear
  \/ InputYear
  \/ SetPriorityString
  \/ SetShowDescription
  \/ SetMaxVisibleCourseCount

Spec == Init /\ [][Next]_vars

\* The load model: only the component script runs.
NextLoad == LoadCourses

SpecLoad == InitLoad /\ [][NextLoad]_vars

TypeOK ==
  /\ variant \in Variants
  /\ pc \in {"start", "ready", "aborted"}
  /\ Len(visibleCourses) <= Len(courses)

----------------------------------------------------------------------------
(* Vocabulary of the properties.                                           *)

Ready == pc = "ready"

\* c is a row of the visible result.
Visible(c) == \E i \in 1..Len(visibleCourses) : visibleCourses[i] = c

\* Number of occurrences of x in the sequence xs.
Count(xs, x) == Cardinality({i \in 1..Len(xs) : xs[i] = x})

\* xs and ys hold the same elements the same number of times.
IsPermutation(xs, ys) ==
  /\ Len(xs) = Len(ys)
  /\ \A i \in 1..Len(xs) : Count(xs, xs[i]) = Count(ys, xs[i])

\* The courses that satisfy the filter predicate, in canonical order.
FilterMatches ==
  SelectSeq(courses, LAMBDA c : CoursePasses(variant, c, Cfg))

\* The result of the filter step, before the priority step.
Filtered == FilterLoop(variant, courses, Cfg, 1, <<>>).visibleCourses

\* c matches the priority query.
Prioritized(c) ==
  courseContainsString(variant, c, priorityString, showDescription)

\* The year filter lets every year through.
AllYears ==
  IF variant = "part_000"
  THEN yearFilter = {Years[i] : i \in 1..Len(Years)}
  ELSE yearFilter = Undefined

\* a <= b in lexicographic order of code units.
LexLeq(a, b) ==
  \/ Len(a) <= Len(b) /\ SubSeq(b, 1, Len(a)) = a
  \/ \E k \in 1..Len(a) :
       /\ k <= Len(b)
       /\ SubSeq(a, 1, k - 1) = SubSeq(b, 1, k - 1)
       /\ Code(a[k]) < Code(b[k])

----------------------------------------------------------------------------
(* C1.  With a positive cap k: when at least k+1 courses satisfy the       *)
(* filter predicate the result holds exactly the first k of them and       *)
(* maxExceeded is true; when exactly k or fewer do, the result holds all   *)
(* of them and maxExceeded is false.  Without a priority query the result  *)
(* is in canonical order.                                                  *)

C1_CapAndTruncation ==
  (Ready /\ IsDefined(maxVisibleCourseCount)
         /\ ValueOf(maxVisibleCourseCount) >= 1) =>
    LET k == ValueOf(maxVisibleCourseCount)
        m == FilterMatches
        expected == IF Len(m) >= k + 1 THEN SubSeq(m, 1, k) ELSE m
    IN  /\ Len(visibleCourses) = (IF Len(m) >= k + 1 THEN k ELSE Len(m))
        /\ maxExceeded = (Len(m) >= k + 1)
        /\ IsPermutation(visibleCourses, expected)
        /\ priorityString = <<>> => visibleCourses = expected

\* A cap of 2 cut a result of at least 3 matching courses.
C1_Witness ==
  /\ Ready
  /\ maxVisibleCourseCount = Some(2)
  /\ Len(FilterMatches) >= 3
  /\ maxExceeded
  /\ Len(visibleCourses) = 2

\* Exactly as many matches as the cap: nothing is cut.
C1_WitnessExact ==
  /\ Ready
  /\ maxVisibleCourseCount = Some(2)
  /\ Len(FilterMatches) = 2
  /\ ~maxExceeded

----------------------------------------------------------------------------
(* C2.  With a non-empty priority query the visible result is a stable     *)
(* partition of the filter result: matching courses first, each group in   *)
(* the order it had in the filter result.                                  *)

C2_StablePartition ==
  (Ready /\ priorityString # <<>>) =>
    /\ Len(visibleCourses) = Len(Filtered)
    /\ SelectSeq(visibleCourses, LAMBDA c : Prioritized(c))
         = SelectSeq(Filtered, LAMBDA c : Prioritized(c))
    /\ SelectSeq(visibleCourses, LAMBDA c : ~Prioritized(c))
         = SelectSeq(Filtered, LAMBDA c : ~Prioritized(c))
    /\ \A i, j \in 1..Len(visibleCourses) :
         (i < j /\ Prioritized(visibleCourses[j]))
            => Prioritized(visibleCourses[i])

\* The priority step moved courses: two matching and two non-matching
\* courses, and a non-matching one was ahead of a matching one.
C2_Witness ==
  /\ Ready
  /\ priorityString # <<>>
  /\ visibleCourses # Filtered
  /\ Cardinality({i \in 1..Len(Filtered) : Prioritized(Filtered[i])}) >= 2
  /\ Cardinality({i \in 1..Len(Filtered) : ~Prioritized(Filtered[i])}) >= 2

----------------------------------------------------------------------------
(* C3.  With a non-empty priority query prioritizedCount is the number of  *)
(* matching courses of the visible result, and the matching courses are    *)
(* exactly those at the first prioritizedCount positions.                  *)

C3_MatchCountIsPrefix ==
  (Ready /\ priorityString # <<>>) =>
    /\ IsDefined(prioritizedCount)
    /\ ValueOf(prioritizedCount)
         = Cardinality({i \in 1..Len(visibleCourses) :
                          Prioritized(visibleCourses[i])})
    /\ \A i \in 1..Len(visibleCourses) :
         Prioritized(visibleCourses[i]) <=> i <= ValueOf(prioritizedCount)

\* Some but not all visible courses match, and the sort moved courses.
C3_Witness ==
  /\ Ready
  /\ priorityString # <<>>
  /\ IsDefined(prioritizedCount)
  /\ ValueOf(prioritizedCount) >= 2
  /\ ValueOf(prioritizedCount) < Len(visibleCourses)
  /\ visibleCourses # Filtered

----------------------------------------------------------------------------
(* C4.  prioritizedCount is undefined exactly when the priority query is   *)
(* empty, and then the visible result is the filter result in its order;   *)
(* with a non-empty query that no course matches it is 0.                  *)

C4_UndefinedIffEmptyQuery ==
  Ready =>
    /\ (prioritizedCount = Undefined) <=> (priorityString = <<>>)
    /\ priorityString = <<>> => visibleCourses = Filtered
    /\ (/\ priorityString # <<>>
        /\ \A i \in 1..Len(visibleCourses) :
              ~Prioritized(visibleCourses[i]))
         => prioritizedCount = Some(0)

\* No query: several visible courses and no count.
C4_Witness ==
  /\ Ready
  /\ priorityString = <<>>
  /\ prioritizedCount = Undefined
  /\ Len(visibleCourses) >= 2

\* A query that nothing matches: the count is 0, not undefined.
C4_WitnessZero ==
  /\ Ready
  /\ priorityString # <<>>
  /\ Len(visibleCourses) >= 1
  /\ prioritizedCount = Some(0)

----------------------------------------------------------------------------
(* C5.  In the revisions that compute row spans, the span array is as long *)
(* as the visible result; the span at the first index of a maximal run of  *)
(* adjacent courses with the same id is the length of the run and the span *)
(* at every other index is 0.                                              *)

\* i starts a run of equal ids.
RunStart(i) ==
  i = 1 \/ visibleCourses[i - 1].id # visibleCourses[i].id

\* The run that starts at i extends up to j.
SameRun(i, j) ==
  \A k \in i..j : visibleCourses[k].id = visibleCourses[i].id

C5_RowSpans ==
  (Ready /\ variant # "page") =>
    /\ Len(visibleCourseIdRowSpans) = Len(visibleCourses)
    /\ \A i \in 1..Len(visibleCourses) :
         visibleCourseIdRowSpans[i] =
           IF RunStart(i)
           THEN Cardinality({j \in i..Len(visibleCourses) : SameRun(i, j)})
           ELSE 0

\* The ids A, A, B, A give the spans 2, 0, 1, 1.
C5_Witness ==
  /\ Ready
  /\ variant # "page"
  /\ [i \in 1..Len(visibleCourses) |-> visibleCourses[i].id]
       = << <<"A">>, <<"A">>, <<"B">>, <<"A">> >>
  /\ visibleCourseIdRowSpans = <<2, 0, 1, 1>>

----------------------------------------------------------------------------
(* C6.  The id filter ignores letter case in both modes: with only the id  *)
(* filter in effect, a course is visible iff the filter text is a prefix   *)
(* (prefix mode) or a substring (contain mode) of its id, compared without *)
(* regard to case.  The code upper-cases only the filter text (page: no    *)
(* text), so an id with a lower-case letter is not found.                  *)

\* Only the id filter restricts the result.
OnlyIdFilter ==
  /\ nameFilter = <<>>
  /\ nameFilterMode = "contain"
  /\ AllYears
  /\ ~maxExceeded

IdMatchesIgnoringCase(c) ==
  IF idFilterMode = "prefix"
  THEN startsWith(toLowerCase(c.id), toLowerCase(idFilter))
  ELSE includes(toLowerCase(c.id), toLowerCase(idFilter))

C6_IdFilterIgnoresCase ==
  (Ready /\ OnlyIdFilter) =>
    \A i \in 1..Len(courses) :
      Visible(courses[i]) <=> IdMatchesIgnoringCase(courses[i])

----------------------------------------------------------------------------
(* C7.  The year filter.  Original statement: a course passes iff its year *)
(* is in the filter, and an empty set or the unset value lets every course *)
(* pass.  Amended: in part_000 a course passes iff its year is in the set  *)
(* of checked years, so the empty set lets no course pass; in the other    *)
(* revisions the unset value lets every course pass and a year lets the    *)
(* courses of that year pass.                                              *)

\* Only the year filter restricts the result.
OnlyYearFilter ==
  /\ idFilter = <<>>
  /\ nameFilter = <<>>
  /\ nameFilterMode = "contain"
  /\ ~maxExceeded

YearFilterEmptyOrUnset ==
  IF variant = "part_000" THEN yearFilter = {} ELSE yearFilter = Undefined

YearInFilter(c) ==
  IF variant = "part_000" THEN c.year \in yearFilter
  ELSE yearFilter = Some(c.year)

C7_EmptyYearFilterAllowsAll ==
  (Ready /\ OnlyYearFilter) =>
    \A i \in 1..Len(courses) :
      Visible(courses[i]) <=>
        (YearFilterEmptyOrUnset \/ YearInFilter(courses[i]))

C7_YearFilter ==
  (Ready /\ OnlyYearFilter) =>
    /\ \A i \in 1..Len(courses) :
         Visible(courses[i]) <=>
           \/ YearInFilter(courses[i])
           \/ variant # "part_000" /\ yearFilter = Undefined
    /\ (variant = "part_000" /\ yearFilter = {}) => visibleCourses = <<>>

\* Every year box is unchecked and no course of a non-empty catalogue is
\* visible.
C7_Witness ==
  /\ Ready
  /\ OnlyYearFilter
  /\ variant = "part_000"
  /\ yearFilter = {}
  /\ Len(courses) >= 1
  /\ visibleCourses = <<>>

----------------------------------------------------------------------------
(* C8.  Empty filter texts.  Original statement: with an empty id text and *)
(* an empty name text every course passes, whatever the modes.  Amended:   *)
(* an empty id text lets every course pass in both id modes; an empty name *)
(* text lets every course pass in the contain mode, and in the exact mode  *)
(* it lets exactly the courses with an empty name pass.                    *)

EmptyFilterTexts ==
  /\ idFilter = <<>>
  /\ nameFilter = <<>>
  /\ AllYears
  /\ ~maxExceeded

C8_EmptyFiltersAcceptAll ==
  (Ready /\ EmptyFilterTexts) =>
    \A i \in 1..Len(courses) : Visible(courses[i])

C8_EmptyFilters ==
  (Ready /\ EmptyFilterTexts) =>
    \A i \in 1..Len(courses) :
      Visible(courses[i]) <=>
        (nameFilterMode = "exact" => courses[i].name = <<>>)

\* Exact mode with an empty text: a named course is hidden, an unnamed one
\* is visible.
C8_Witness ==
  /\ Ready
  /\ EmptyFilterTexts
  /\ nameFilterMode = "exact"
  /\ idFilterMode = "contain"
  /\ \E i \in 1..Len(courses) :
       courses[i].name # <<>> /\ ~Visible(courses[i])
  /\ \E i \in 1..Len(courses) :
       courses[i].name = <<>> /\ Visible(courses[i])

----------------------------------------------------------------------------
(* C9.  The loaded courses are in ascending lexicographic order of their   *)
(* keys, whatever the sources, and sorting them again changes nothing.     *)

C9_SortedByKey ==
  Ready =>
    /\ \A i \in 1..(Len(courses) - 1) :
         LexLeq(courses[i].key, courses[i + 1].key)
    /\ ArraySort(courses,
         [i, j \in 1..Len(courses) |->
            courseCompare(courses[i], courses[j])]) = courses

\* The concatenation of the parsed sources was not in order.
C9_Witness ==
  /\ Ready
  /\ Len(courses) >= 3
  /\ ValueOf(LoadFrom(sources, 1)) # courses

----------------------------------------------------------------------------
(* C10.  No two loaded courses have the same key, also when an id occurs   *)
(* on more than one row of a source.  The parser gives two rows with the   *)
(* same id in one source the same key.                                     *)

C10_UniqueKeys ==
  Ready =>
    \A i, j \in 1..Len(courses) :
      i # j => courses[i].key # courses[j].key

----------------------------------------------------------------------------
(* C11.  When the decoder reports an error for one of the sources, parsing *)
(* that source yields undefined, the script ends with a failed assertion   *)
(* and there is no course collection and no visible result, not even of    *)
(* the sources read before; the collection exists only when no source had  *)
(* a decoder error.                                                        *)

\* The decoder reported an error for some source.
DecoderError == \E i \in 1..Len(Years) : sources[i].errors > 0

C11_NoCollectionAfterDecoderError ==
  /\ DecoderError =>
       /\ ~Ready
       /\ courses = <<>>
       /\ visibleCourses = <<>>
       /\ \E i \in 1..Len(Years) :
            parseCoursesCsv(sources[i], Years[i]) = Undefined
  /\ pc = "aborted" <=> (DecoderError /\ pc # "start")
  /\ Ready => ~DecoderError

\* The first source was read and gave a course, the second had a decoder
\* error: the script has ended and nothing was kept.
C11_Witness ==
  /\ pc = "aborted"
  /\ sources[1].errors = 0
  /\ IsDefined(parseCoursesCsv(sources[1], Years[1]))
  /\ Len(ValueOf(parseCoursesCsv(sources[1], Years[1]))) >= 1
  /\ sources[2].errors > 0
  /\ courses = <<>>

----------------------------------------------------------------------------
(* C12.  For a source the decoder reads without error, the parser returns  *)
(* one course for every row that has all nine columns as strings and an id *)
(* that is not blank, in row order, and nothing for the other rows; so at  *)
(* most as many courses as rows, each with a non-empty id without          *)
(* surrounding blanks, and a skipped row changes nothing for the others.   *)

\* The row has every column, each a string, and its id has a character
\* that is not a blank.
RowAccepted(row) ==
  /\ \A col \in Columns : col \in DOMAIN row /\ row[col].type = "string"
  /\ \E k \in 1..Len(row["id"].text) : row["id"].text[k] # " "

\* The lines of source i the parser must accept, in row order.
AcceptedLines(i) ==
  SelectSeq(sources[i].lines, LAMBDA line : RowAccepted(RowOf(line)))

\* The id of a row without its leading and trailing blanks.
IdWithoutBlanks(row) ==
  LET t == row["id"].text
      first == CHOOSE k \in 1..Len(t) :
                 t[k] # " " /\ \A m \in 1..(k - 1) : t[m] = " "
      last  == CHOOSE k \in 1..Len(t) :
                 t[k] # " " /\ \A m \in (k + 1)..Len(t) : t[m] = " "
  IN  SubSeq(t, first, last)

C12_ParserSkipsRows ==
  \A i \in 1..Len(Years) :
    sources[i].errors = 0 =>
      LET parsed == parseCoursesCsv(sources[i], Years[i])
          want   == AcceptedLines(i)
      IN  /\ IsDefined(parsed)
          /\ Len(ValueOf(parsed)) <= Len(sources[i].lines)
          /\ Len(ValueOf(parsed)) = Len(want)
          /\ \A k \in 1..Len(want) :
               /\ ValueOf(parsed)[k].id = IdWithoutBlanks(RowOf(want[k]))
               /\ ValueOf(parsed)[k].id # <<>>
               /\ ValueOf(parsed)[k].year = Years[i]
          /\ Ready =>
               \A k \in 1..Len(want) :
                 \E j \in 1..Len(courses) : courses[j] = ValueOf(parsed)[k]

\* A source with a skipped row between two accepted rows, one of them with
\* blanks around its id: both accepted rows are loaded, in row order.
C12_Witness ==
  /\ Ready
  /\ Len(sources[1].lines) = 3
  /\ RowAccepted(RowOf(sources[1].lines[1]))
  /\ ~RowAccepted(RowOf(sources[1].lines[2]))
  /\ RowAccepted(RowOf(sources[1].lines[3]))
  /\ sources[1].lines[3] = "rA"
  /\ Len(courses) = 2

----------------------------------------------------------------------------
(* C13.  When the cap input changes from a positive integer to a value     *)
(* that is not one, the recomputation behaves as if there were no cap      *)
(* (every matching course, not truncated) or as under the previous cap.    *)
(* The code uses the input as it is: a cap of 0 ends the filter loop at    *)
(* the first matching course, which gives an empty, truncated result.      *)

\* n is a positive integer.
ValidCap(n) == IsDefined(n) /\ ValueOf(n) >= 1

\* The result shows the first k matching courses, or all if there are
\* fewer.
ResultUnderCap(k) ==
  /\ Len(visibleCourses) = (IF Len(FilterMatches) > k
                            THEN k ELSE Len(FilterMatches))
  /\ maxExceeded = (Len(FilterMatches) > k)

\* The result shows every matching course.
ResultWithoutCap ==
  /\ Len(visibleCourses) = Len(FilterMatches)
  /\ ~maxExceeded

C13_InvalidCapFallsBack ==
  [][(/\ Ready
      /\ ValidCap(maxVisibleCourseCount)
      /\ ~ValidCap(maxVisibleCourseCount'))
       => \/ ResultWithoutCap'
          \/ \E k \in {ValueOf(maxVisibleCourseCount)} : ResultUnderCap(k)'
    ]_vars

----------------------------------------------------------------------------
(* C14.  Whatever the configuration changes and the recomputations they    *)
(* trigger, the master collection stays what loading made it: the same     *)
(* records with the same fields in the same canonical order.               *)

C14_MasterCollectionUnchanged ==
  Ready => courses = ValueOf(loadCourses(sources))

\* Year filter, id mode, cap and priority query were all changed, the
\* result was cut and the priority sort moved rows of the visible result.
C14_Witness ==
  /\ Ready
  /\ ~AllYears
  /\ idFilterMode = "contain"
  /\ priorityString # <<>>
  /\ maxExceeded
  /\ maxVisibleCourseCount = Some(2)
  /\ visibleCourses # Filtered
  /\ courses = ValueOf(loadCourses(sources))

----------------------------------------------------------------------------
(* C15.  The priority sort runs on the capped result only.  A step that    *)
(* leaves the filters and the cap as they are (it changes the priority     *)
(* query or the description flag) leaves the records of the visible result *)
(* and maxExceeded as they are; so after a truncation a course that        *)
(* matches the query but lies behind the cap is not shown and not counted. *)

C15_RankingAfterTruncation ==
  [][(/\ Ready
      /\ UNCHANGED <<idFilter, idFilterMode, nameFilter, nameFilterMode,
                     yearFilter, maxVisibleCourseCount>>)
       => /\ IsPermutation(visibleCourses', visibleCourses)
          /\ maxExceeded' = maxExceeded
          /\ (IsDefined(prioritizedCount') /\ ValidCap(maxVisibleCourseCount))
               => ValueOf(prioritizedCount') <= ValueOf(maxVisibleCourseCount)
    ]_vars

\* The result was cut at the cap, and a course that matches the query lies
\* behind the cap: it is not visible, and the count is smaller than the
\* number of matching courses that pass the filters.
C15_Witness ==
  /\ Ready
  /\ priorityString # <<>>
  /\ ValidCap(maxVisibleCourseCount)
  /\ maxExceeded
  /\ \E i \in 1..Len(FilterMatches) :
       /\ i > ValueOf(maxVisibleCourseCount)
       /\ Prioritized(FilterMatches[i])
       /\ ~Visible(FilterMatches[i])
  /\ \E i \in 1..Len(visibleCourses) : ~Prioritized(visibleCourses[i])
  /\ ValueOf(prioritizedCount)
       < Cardinality({i \in 1..Len(FilterMatches) :
                        Prioritized(FilterMatches[i])})

====
